---- MODULE Spec2Model ----
(***************************************************************************)
(* A model of metabase.models.segment (the Segment persistence functions   *)
(* create-segment, update-segment, delete-segment, the retrieval           *)
(* functions and the pre-cascade-delete hook) as concurrent requests       *)
(* against one table of rows, and of the ViewFilterPopover component's     *)
(* commit handlers.                                                        *)
(*                                                                         *)
(* Clojure values are tagged records [t, v]: t is the runtime type the     *)
(* :pre conditions test, v a small code (for a string, 0 is "").           *)
(* A call is split where it touches the table or the event bus: the store  *)
(* statement, the re-fetch, the publication.                               *)
(* The created_at / updated_at columns kept by the `timestamped` mixin     *)
(* are not represented; every statement below is about the other columns.  *)
(***************************************************************************)
EXTENDS Integers, Sequences, FiniteSets, TLC

VARIABLES
    db,         \* the segment table: raw id -> row
    nextId,     \* the table's auto-increment counter
    revisions,  \* the revision table, oldest first
    events,     \* the events published so far, oldest first
    isProd,     \* (config/is-prod?)
    pc,         \* per request: the call in progress, its locals, and (history)
                \* whether its store statement found the row
    outcome,    \* per request: how its last call ended
    slots,      \* the request slots in use: {1}, or {1, 2} for overlapping calls
    ops,        \* number of calls started so far (also the id of the latest)
    serial,     \* history: the table had every call so far run alone, in the order of their store statements
    lastWrite,  \* history: the latest statement that wrote to the table
    deleted,    \* history: ids whose delete-segment call has returned
    written,    \* history: the calls whose store statement has executed, and their kind
    purged,     \* history: ids physically removed by cascade-delete
    mounted,    \* ViewFilterPopover: "new", "mounted" or "unmounted"
    listeners,  \* the window's keydown listeners
    filter,     \* ViewFilterPopover this.state.filter
    query,      \* ViewFilterPopover this.props.query
    hasOnClose, \* whether props.onClose was provided
    calls,      \* the prop callbacks invoked by the latest event, in order
    attempt     \* history: the latest call of handleCommitFilter

segVars == <<db, nextId, revisions, events, isProd, pc, outcome, slots, ops, serial,
             lastWrite, deleted, written, purged>>
popVars == <<mounted, listeners, filter, query, hasOnClose, calls, attempt>>
vars == <<db, nextId, revisions, events, isProd, pc, outcome, slots, ops, serial,
          lastWrite, deleted, written, purged,
          mounted, listeners, filter, query, hasOnClose, calls, attempt>>

\* ------------------------------------------------------------------ bounds

MaxOps == 3
MaxSegments == 2

\* ------------------------------------------------------------------ values

Num(n) == [t |-> "int", v |-> n]
Str(n) == [t |-> "str", v |-> n]
Map(n) == [t |-> "map", v |-> n]
Bool(b) == [t |-> "bool", v |-> IF b THEN 1 ELSE 0]
Delay(n) == [t |-> "delay", v |-> n]
Nil == [t |-> "nil", v |-> 0]

IsInteger(x) == x.t = "int"
IsString(x) == x.t = "str"
IsMap(x) == x.t = "map"

Requests == {1, 2}
Superusers == {1}

\* The argument values the requests draw from: for each checked parameter,
\* well-typed values and a value of another type.
TableIdArgs == {Num(1), Nil}
NameArgs == {Str(0), Str(1), Nil}
DescriptionArgs == {Nil}
CreatorIdArgs == {Num(1), Str(1)}
DefinitionArgs == {Map(1), Str(1)}
NewNameArgs == {Str(2), Nil}
NewDescriptionArgs == {Str(1)}
NewDefinitionArgs == {Map(2), Nil}
IdArgs == {Num(1), Num(2), Nil}
UserIdArgs == {Num(1), Num(2), Nil}
MessageArgs == {Str(0), Nil}

CreateArgs ==
    [table_id : TableIdArgs, name : NameArgs, description : DescriptionArgs,
     creator_id : CreatorIdArgs, definition : DefinitionArgs]
UpdateArgs ==
    [id : IdArgs, name : NewNameArgs, description : NewDescriptionArgs,
     definition : NewDefinitionArgs, revision_message : MessageArgs,
     user_id : UserIdArgs]
DeleteArgs == [id : IdArgs, user_id : {Num(1), Num(2)}]

\* ---------------------------------------------------------- the store (db)

\* (db/ins Segment :table_id .. :definition ..), the row create-segment inserts
InsRow(id, a) ==
    [id |-> Num(id), table_id |-> a.table_id, creator_id |-> a.creator_id,
     name |-> a.name, description |-> a.description, is_active |-> Bool(TRUE),
     definition |-> a.definition]

\* post-select: the row as a SegmentInstance, with the creator as a delay
PostSelect(row) == ("creator" :> Delay(row.creator_id.v)) @@ row

\* a db/upd that, when it sets the name, also moves the old name into the
\* description
DbUpdShift(d, id, kvs) ==
    IF id.v \in DOMAIN d
    THEN [d EXCEPT ![id.v] =
            [k \in DOMAIN @ |->
                IF k = "description" /\ "name" \in DOMAIN kvs THEN @.name
                ELSE IF k \in DOMAIN kvs THEN kvs[k] ELSE @[k]]]
    ELSE d

\* (db/upd Segment id k v ...): one UPDATE statement setting the columns of kvs
\* on the row with that id; no row, no effect
DbUpd(d, id, kvs) ==
    IF id.v \in DOMAIN d
    THEN [d EXCEPT ![id.v] =
            [k \in DOMAIN @ |-> IF k \in DOMAIN kvs THEN kvs[k] ELSE @[k]]]
    ELSE d

\* (assoc m k v ...); (assoc nil ...) is a map of the new keys alone
Assoc(m, kvs) ==
    [k \in DOMAIN kvs \cup (IF m = Nil THEN {} ELSE DOMAIN m) |->
        IF k \in DOMAIN kvs THEN kvs[k] ELSE m[k]]

\* an update-segment that also sets is_active
UpdateFieldsReactivate(name, description, definition) ==
    [name |-> name, description |-> description, definition |-> definition,
     is_active |-> Bool(TRUE)]

\* an update-segment whose statement sets the name alone
UpdateFieldsNameOnly(name, description, definition) == [name |-> name]

\* the columns update-segment passes to db/upd
UpdateFields(name, description, definition) ==
    [name |-> name, description |-> description, definition |-> definition]

\* a delete-segment that sets the flag the wrong way
DeleteFieldsActive == [is_active |-> Bool(TRUE)]

\* the column delete-segment passes to db/upd
DeleteFields == [is_active |-> Bool(FALSE)]

\* a :pre without (map? definition)
CreatePreNoMap(a) ==
    /\ IsInteger(a.table_id)
    /\ IsString(a.name)
    /\ IsInteger(a.creator_id)

\* create-segment's :pre
CreatePre(a) ==
    /\ IsInteger(a.table_id)
    /\ IsString(a.name)
    /\ IsInteger(a.creator_id)
    /\ IsMap(a.definition)

\* a :pre without (string? revision_message)
UpdatePreNoMessage(a) ==
    /\ IsInteger(a.id)
    /\ IsString(a.name)
    /\ IsMap(a.definition)
    /\ IsInteger(a.user_id)

\* update-segment's :pre
UpdatePre(a) ==
    /\ IsInteger(a.id)
    /\ IsString(a.name)
    /\ IsMap(a.definition)
    /\ IsInteger(a.user_id)
    /\ IsString(a.revision_message)

\* delete-segment's :pre
DeletePre(a) == IsInteger(a.id)

\* :write :superuser
CanWrite(user_id) == IsInteger(user_id) /\ user_id.v \in Superusers

\* ------------------------------------------------------------- retrieval

\* exists-segment?
ExistsSegment(d, id) ==
    id.v \in DOMAIN d /\ d[id.v].is_active = Bool(TRUE)

\* retrieve-segment: the SegmentInstance, or nil
RetrieveSegment(d, id) ==
    IF id.v \in DOMAIN d THEN PostSelect(d[id.v]) ELSE Nil

\* the rows retrieve-segments selects; state is "active", "deleted" or "all"
SegmentsOf(d, table_id, state) ==
    {i \in DOMAIN d :
        /\ d[i].table_id = table_id
        /\ \/ state = "all"
           \/ d[i].is_active = Bool(state = "active")}

\* retrieve-segments: every listing of the selected rows in ascending order of
\* name (SQL leaves the order of rows with equal names open)
RetrieveSegments(d, table_id, state) ==
    LET S == SegmentsOf(d, table_id, state)
        n == Cardinality(S)
    IN  {s \in [1..n -> S] :
            /\ \A i, j \in 1..n : i # j => s[i] # s[j]
            /\ \A i, j \in 1..n : i < j => d[s[i]].name.v <= d[s[j]].name.v}

\* ------------------------------------------------- revisions and events

\* serialize-instance: the instance without timestamps and without delays
SerializeInstance(instance) ==
    IF instance = Nil
    THEN << >>
    ELSE [k \in {x \in DOMAIN instance \ {"created_at", "updated_at"} :
                    instance[x].t # "delay"} |-> instance[k]]

ObjectId(object) ==
    IF object # Nil /\ "id" \in DOMAIN object THEN object.id ELSE Nil

\* the Revision Recorder: one snapshot of the event's object
RecordRevision(revs, object, op) ==
    Append(revs, [model |-> "Segment", model_id |-> ObjectId(object),
                  object |-> SerializeInstance(object), op |-> op])

\* events/publish-event
PublishEvent(evs, topic, object, op) ==
    Append(evs, [topic |-> topic, object |-> object, op |-> op])

\* ------------------------------------------------------------- requests

Idle ==
    [op |-> "idle", id |-> Nil, user_id |-> Nil, msg |-> Nil, segment |-> Nil,
     opid |-> 0, hit |-> FALSE]

NoWrite == [kind |-> "none", id |-> Nil, kvs |-> << >>]

InitStore ==
    /\ db = << >>
    /\ nextId = 1
    /\ revisions = << >>
    /\ events = << >>
    /\ pc = [r \in Requests |-> Idle]
    /\ outcome = [r \in Requests |-> "none"]
    /\ ops = 0
    /\ serial = << >>
    /\ lastWrite = NoWrite
    /\ deleted = {}
    /\ written = << >>
    /\ purged = {}

\* Requests are interchangeable, so a call takes slot 2 only to overlap a call
\* in slot 1.
CanCall(r) ==
    /\ r \in slots
    /\ pc[r].op = "idle"
    /\ ops < MaxOps
    /\ r = 2 => pc[1].op # "idle"

\* a call whose :pre fails: AssertionError, nothing else happens
Rejected(r) ==
    /\ ops' = ops + 1
    /\ outcome' = [outcome EXCEPT ![r] = "AssertionError"]
    /\ pc' = [pc EXCEPT ![r] = Idle]
    /\ UNCHANGED <<db, nextId, revisions, events, isProd, serial, lastWrite,
                   deleted, written, purged>>

\* create-segment up to the return of db/ins
CreateSegment(r, a) ==
    /\ CanCall(r)
    /\ r = 1
    /\ UNCHANGED <<slots, mounted, listeners, filter, query, hasOnClose, calls,
                 attempt>>
    /\ IF ~CreatePre(a)
       THEN Rejected(r)
       ELSE /\ nextId <= MaxSegments
            /\ ops' = ops + 1
            /\ db' = (nextId :> InsRow(nextId, a)) @@ db
            /\ nextId' = nextId + 1
            /\ serial' = (nextId :>
                            [id |-> Num(nextId), table_id |-> a.table_id,
                             creator_id |-> a.creator_id, name |-> a.name,
                             description |-> a.description,
                             is_active |-> Bool(TRUE),
                             definition |-> a.definition]) @@ serial
            /\ lastWrite' = [kind |-> "create", id |-> Num(nextId), kvs |-> a]
            /\ written' = (ops + 1 :> "create") @@ written
            /\ outcome' = [outcome EXCEPT ![r] = "running"]
            /\ pc' = [pc EXCEPT ![r] =
                        [op |-> "create:publish", id |-> Num(nextId),
                         user_id |-> Nil, msg |-> Nil,
                         segment |-> PostSelect(InsRow(nextId, a)),
                         opid |-> ops + 1, hit |-> TRUE]]
            /\ UNCHANGED <<revisions, events, isProd, deleted, purged>>

\* create-segment: (events/publish-event :segment-create segment), return
CreatePublish(r) ==
    /\ pc[r].op = "create:publish"
    /\ UNCHANGED <<slots, mounted, listeners, filter, query, hasOnClose, calls,
                 attempt>>
    /\ revisions' = RecordRevision(revisions, pc[r].segment, pc[r].opid)
    /\ events' = PublishEvent(events, "segment-create", pc[r].segment, pc[r].opid)
    /\ outcome' = [outcome EXCEPT ![r] = "create:ok"]
    /\ pc' = [pc EXCEPT ![r] = Idle]
    /\ UNCHANGED <<db, nextId, isProd, ops, serial, lastWrite, deleted, written,
                   purged>>

\* update-segment up to the return of db/upd
UpdateSegment(r, a) ==
    /\ CanCall(r)
    /\ UNCHANGED <<slots, mounted, listeners, filter, query, hasOnClose, calls,
                 attempt>>
    /\ IF ~UpdatePre(a)
       THEN Rejected(r)
       ELSE /\ ops' = ops + 1
            /\ db' = DbUpd(db, a.id,
                           UpdateFields(a.name, a.description, a.definition))
            /\ serial' = IF a.id.v \in DOMAIN serial
                          THEN [serial EXCEPT ![a.id.v].name = a.name,
                                              ![a.id.v].description = a.description,
                                              ![a.id.v].definition = a.definition]
                          ELSE serial
            /\ lastWrite' = [kind |-> "update", id |-> a.id,
                             kvs |-> [name |-> a.name,
                                      description |-> a.description,
                                      definition |-> a.definition]]
            /\ written' = (ops + 1 :> "update") @@ written
            /\ outcome' = [outcome EXCEPT ![r] = "running"]
            /\ pc' = [pc EXCEPT ![r] =
                        [op |-> "update:retrieve", id |-> a.id,
                         user_id |-> a.user_id, msg |-> a.revision_message,
                         segment |-> Nil, opid |-> ops + 1,
                         hit |-> a.id.v \in DOMAIN db]]
            /\ UNCHANGED <<nextId, revisions, events, isProd, deleted, purged>>

\* update-segment / delete-segment: (retrieve-segment id)
Retrieve(r) ==
    /\ pc[r].op \in {"update:retrieve", "delete:retrieve"}
    /\ UNCHANGED <<slots, mounted, listeners, filter, query, hasOnClose, calls,
                 attempt>>
    /\ pc' = [pc EXCEPT ![r].segment = RetrieveSegment(db, pc[r].id),
                        ![r].op = IF pc[r].op = "update:retrieve"
                                  THEN "update:publish" ELSE "delete:publish"]
    /\ UNCHANGED <<db, nextId, revisions, events, isProd, outcome, ops, serial,
                   lastWrite, deleted, written, purged>>

\* update-segment: (events/publish-event :segment-update ...), return
UpdatePublish(r) ==
    /\ pc[r].op = "update:publish"
    /\ UNCHANGED <<slots, mounted, listeners, filter, query, hasOnClose, calls,
                 attempt>>
    /\ LET object == Assoc(pc[r].segment,
                           [actor_id |-> pc[r].user_id,
                            revision_message |-> pc[r].msg])
       IN  /\ revisions' = RecordRevision(revisions, object, pc[r].opid)
           /\ events' = PublishEvent(events, "segment-update", object, pc[r].opid)
    /\ outcome' = [outcome EXCEPT ![r] = "update:ok"]
    /\ pc' = [pc EXCEPT ![r] = Idle]
    /\ UNCHANGED <<db, nextId, isProd, ops, serial, lastWrite, deleted, written,
                   purged>>

\* delete-segment up to the return of db/upd
DeleteSegment(r, a) ==
    /\ CanCall(r)
    /\ UNCHANGED <<slots, mounted, listeners, filter, query, hasOnClose, calls,
                 attempt>>
    /\ IF ~DeletePre(a)
       THEN Rejected(r)
       ELSE /\ ops' = ops + 1
            /\ db' = DbUpd(db, a.id, DeleteFields)
            /\ serial' = IF a.id.v \in DOMAIN serial
                          THEN [serial EXCEPT ![a.id.v].is_active = Bool(FALSE)]
                          ELSE serial
            /\ lastWrite' = [kind |-> "delete", id |-> a.id,
                             kvs |-> [is_active |-> Bool(FALSE)]]
            /\ written' = (ops + 1 :> "delete") @@ written
            /\ outcome' = [outcome EXCEPT ![r] = "running"]
            /\ pc' = [pc EXCEPT ![r] =
                        [op |-> "delete:retrieve", id |-> a.id,
                         user_id |-> a.user_id, msg |-> Nil, segment |-> Nil,
                         opid |-> ops + 1, hit |-> a.id.v \in DOMAIN db]]
            /\ UNCHANGED <<nextId, revisions, events, isProd, deleted, purged>>

\* a delete-segment that returns without publishing
DeletePublishSilent(r) ==
    /\ pc[r].op = "delete:publish"
    /\ deleted' = IF ~pc[r].hit THEN deleted
                  ELSE deleted \cup {pc[r].id.v}
    /\ outcome' = [outcome EXCEPT ![r] = "delete:ok"]
    /\ pc' = [pc EXCEPT ![r] = Idle]
    /\ UNCHANGED <<db, nextId, revisions, events, isProd, ops, serial,
                   lastWrite, written, purged, slots, mounted, listeners,
                   filter, query, hasOnClose, calls, attempt>>

\* delete-segment: (events/publish-event :segment-delete ...), return
DeletePublish(r) ==
    /\ pc[r].op = "delete:publish"
    /\ UNCHANGED <<slots, mounted, listeners, filter, query, hasOnClose, calls,
                 attempt>>
    /\ LET object == Assoc(pc[r].segment, [actor_id |-> pc[r].user_id])
       IN  /\ revisions' = RecordRevision(revisions, object, pc[r].opid)
           /\ events' = PublishEvent(events, "segment-delete", object, pc[r].opid)
    /\ deleted' = IF ~pc[r].hit THEN deleted
                  ELSE deleted \cup {pc[r].id.v}
    /\ outcome' = [outcome EXCEPT ![r] = "delete:ok"]
    /\ pc' = [pc EXCEPT ![r] = Idle]
    /\ UNCHANGED <<db, nextId, isProd, ops, serial, lastWrite, written, purged>>

\* pre-cascade-delete, not in prod: the Segment's revisions go
PreCascadeDelete(revs, id) ==
    SelectSeq(revs, LAMBDA x : ~(x.model = "Segment" /\ x.model_id = id))

\* a cascade-delete that in prod soft-deletes instead of throwing
CascadeDeleteSoft(r, id) ==
    /\ pc[r].op = "idle"
    /\ r \in slots
    /\ ops < MaxOps
    /\ r = 1
    /\ id.v \in DOMAIN db
    /\ ops' = ops + 1
    /\ pc' = [pc EXCEPT ![r] = Idle]
    /\ IF isProd
       THEN /\ outcome' = [outcome EXCEPT ![r] = "cascade-delete:ok"]
            /\ db' = [db EXCEPT ![id.v].is_active = Bool(FALSE)]
            /\ serial' = [serial EXCEPT ![id.v].is_active = Bool(FALSE)]
            /\ UNCHANGED <<revisions, lastWrite, purged>>
       ELSE /\ outcome' = [outcome EXCEPT ![r] = "cascade-delete:ok"]
            /\ revisions' = SelectSeq(revisions,
                    LAMBDA x : ~(x.model = "Segment" /\ x.model_id = id))
            /\ db' = [i \in DOMAIN db \ {id.v} |-> db[i]]
            /\ serial' = [i \in DOMAIN serial \ {id.v} |-> serial[i]]
            /\ lastWrite' = [kind |-> "cascade-delete", id |-> id, kvs |-> << >>]
            /\ purged' = purged \cup {id.v}
    /\ UNCHANGED <<nextId, events, isProd, deleted, written, slots, mounted,
                   listeners, filter, query, hasOnClose, calls, attempt>>

\* (db/cascade-delete Segment :id id): pre-cascade-delete on the selected
\* Segment, then the row is deleted
CascadeDelete(r, id) ==
    /\ CanCall(r)
    /\ r = 1
    /\ UNCHANGED <<slots, mounted, listeners, filter, query, hasOnClose, calls,
                 attempt>>
    /\ id.v \in DOMAIN db
    /\ ops' = ops + 1
    /\ pc' = [pc EXCEPT ![r] = Idle]
    /\ IF isProd
       THEN /\ outcome' = [outcome EXCEPT ![r] = "Exception"]
            /\ UNCHANGED <<db, revisions, serial, lastWrite, purged>>
       ELSE /\ outcome' = [outcome EXCEPT ![r] = "cascade-delete:ok"]
            /\ revisions' = PreCascadeDelete(revisions, id)
            /\ db' = [i \in DOMAIN db \ {id.v} |-> db[i]]
            /\ serial' = [i \in DOMAIN serial \ {id.v} |-> serial[i]]
            /\ lastWrite' = [kind |-> "cascade-delete", id |-> id, kvs |-> << >>]
            /\ purged' = purged \cup {id.v}
    /\ UNCHANGED <<nextId, events, isProd, deleted, written>>

NoAttempt == [via |-> "none", filter |-> Nil, mounted |-> "new"]

PopoverIdle ==
    /\ mounted = "new"
    /\ listeners = {}
    /\ filter = Nil
    /\ query = 1
    /\ hasOnClose = FALSE
    /\ calls = << >>
    /\ attempt = NoAttempt

Init == InitStore /\ isProd \in BOOLEAN /\ slots = {1} /\ PopoverIdle

Next ==
    \/ \E r \in Requests, a \in CreateArgs : CreateSegment(r, a)
    \/ \E r \in Requests : CreatePublish(r)
    \/ \E r \in Requests, a \in UpdateArgs : UpdateSegment(r, a)
    \/ \E r \in Requests : Retrieve(r)
    \/ \E r \in Requests : UpdatePublish(r)
    \/ \E r \in Requests, a \in DeleteArgs : DeleteSegment(r, a)
    \/ \E r \in Requests : DeletePublish(r)
    \/ \E r \in Requests, id \in {x \in IdArgs : IsInteger(x)} :
            CascadeDelete(r, id)

Spec == Init /\ [][Next]_vars

\* the same calls, with a second slot whose update-segment and delete-segment
\* calls overlap the first slot's
InitConcurrent ==
    InitStore /\ isProd \in BOOLEAN /\ slots = Requests /\ PopoverIdle

SpecConcurrent == InitConcurrent /\ [][Next]_vars

\* ------------------------------------------------------ ViewFilterPopover

\* A filter clause is known here by what the component asks of it: whether it
\* is an instance of Filter, its dimension() (0 for none), its isValid() and
\* the query it belongs to.
Fields == {1, 2}
Queries == {1, 2}
Clause(type, dimension, valid, q) ==
    [t |-> type, v |-> 0, dimension |-> dimension, valid |-> valid, query |-> q]
Filters == {Clause("Filter", d, b, q) : d \in {0} \cup Fields, b \in BOOLEAN,
                                        q \in Queries}
RawClauses == {Clause("mbql", d, b, 0) : d \in {0} \cup Fields, b \in BOOLEAN}

IsFilter(f) == f.t = "Filter"

\* new Filter(clause, null, query)
NewFilter(f, q) == [f EXCEPT !.t = "Filter", !.query = q]

\* constructor: this.state.filter
Constructor(propsFilter) == IF IsFilter(propsFilter) THEN propsFilter ELSE Nil

InitPopover ==
    /\ mounted = "new"
    /\ listeners = {}
    /\ query \in Queries
    /\ hasOnClose \in BOOLEAN
    /\ \E propsFilter \in {Nil} \cup RawClauses \cup
                          {f \in Filters : f.query = query} :
            filter = Constructor(propsFilter)
    /\ calls = << >>
    /\ attempt = NoAttempt

\* a handleCommitFilter that does not ask isValid()
CommitCallsUnchecked(f, q, onClose) ==
    IF f # Nil
    THEN <<[fn |-> "onChangeFilter",
            arg |-> IF IsFilter(f) THEN f ELSE NewFilter(f, q)]>>
         \o (IF onClose THEN <<[fn |-> "onClose", arg |-> Nil]>> ELSE << >>)
    ELSE << >>

\* handleCommitFilter: the prop callbacks it invokes, in order
CommitCalls(f, q, onClose) ==
    LET wrapped == IF f # Nil /\ ~IsFilter(f) THEN NewFilter(f, q) ELSE f
    IN  IF wrapped # Nil /\ wrapped.valid
        THEN <<[fn |-> "onChangeFilter", arg |-> wrapped]>>
             \o (IF onClose THEN <<[fn |-> "onClose", arg |-> Nil]>> ELSE << >>)
        ELSE << >>

HandleCommitFilter(f, q, via) ==
    /\ calls' = CommitCalls(f, q, hasOnClose)
    /\ attempt' = [via |-> via, filter |-> f, mounted |-> mounted]
    /\ UNCHANGED <<mounted, listeners, filter, query, hasOnClose>>

NoCommit ==
    /\ calls' = << >>
    /\ attempt' = NoAttempt

\* what render() shows: the header, picker and footer, or the DimensionList
ShowsFilter == mounted = "mounted" /\ filter # Nil /\ filter.dimension # 0
ShowsList == mounted = "mounted" /\ ~(filter # Nil /\ filter.dimension # 0)

ComponentWillMount ==
    /\ mounted = "new"
    /\ mounted' = "mounted"
    /\ listeners' = listeners \cup {"handleCommitOnEnter"}
    /\ NoCommit
    /\ UNCHANGED <<filter, query, hasOnClose>>
    /\ UNCHANGED segVars

ComponentWillUnmount ==
    /\ mounted = "mounted"
    /\ mounted' = "unmounted"
    /\ listeners' = listeners \ {"handleCommitOnEnter"}
    /\ NoCommit
    /\ UNCHANGED <<filter, query, hasOnClose>>
    /\ UNCHANGED segVars

\* componentWillReceiveProps: a new query; the filter is moved to it, and
\* whether it is valid there is open
ComponentWillReceiveProps(nextQuery, valid) ==
    /\ mounted = "mounted"
    /\ query' = nextQuery
    /\ filter' = IF filter # Nil /\ query # nextQuery
                 THEN [filter EXCEPT !.query = nextQuery, !.valid = valid]
                 ELSE filter
    /\ NoCommit
    /\ UNCHANGED <<mounted, listeners, hasOnClose>>
    /\ UNCHANGED segVars

\* the footer's commit button
HandleCommit ==
    /\ ShowsFilter
    /\ HandleCommitFilter(filter, query, "button")
    /\ UNCHANGED segVars

HandleCommitOnEnter(key) ==
    IF key = "Enter"
    THEN HandleCommitFilter(filter, query, "Enter")
    ELSE NoCommit /\ UNCHANGED <<mounted, listeners, filter, query, hasOnClose>>

\* a keydown on the window, delivered to the listeners registered there
KeyDown(key) ==
    /\ IF "handleCommitOnEnter" \in listeners
       THEN HandleCommitOnEnter(key)
       ELSE NoCommit /\ UNCHANGED <<mounted, listeners, filter, query, hasOnClose>>
    /\ UNCHANGED segVars

\* the DimensionList's onChange: a segment or ready-made filter was picked
HandleListChange(item) ==
    /\ ShowsList
    /\ HandleCommitFilter(item, query, "list")
    /\ UNCHANGED segVars

\* handleFieldChange: setDimension with the default operator; whether the
\* result is valid is open
HandleFieldChange(fieldRef, valid) ==
    /\ ShowsList
    /\ filter' = [(IF filter # Nil THEN filter
                   ELSE NewFilter(Clause("mbql", 0, FALSE, 0), query))
                  EXCEPT !.dimension = fieldRef, !.valid = valid]
    /\ NoCommit
    /\ UNCHANGED <<mounted, listeners, query, hasOnClose>>
    /\ UNCHANGED segVars

\* handleFilterChange: this.state.filter.set(newFilter)
HandleFilterChange(newFilter) ==
    /\ ShowsFilter
    /\ filter' = [filter EXCEPT !.dimension = newFilter.dimension,
                                !.valid = newFilter.valid]
    /\ NoCommit
    /\ UNCHANGED <<mounted, listeners, query, hasOnClose>>
    /\ UNCHANGED segVars

\* handleClearField: setDimension(null)
HandleClearField(valid) ==
    /\ ShowsFilter
    /\ filter' = [filter EXCEPT !.dimension = 0, !.valid = valid]
    /\ NoCommit
    /\ UNCHANGED <<mounted, listeners, query, hasOnClose>>
    /\ UNCHANGED segVars

NextPopover ==
    \/ ComponentWillMount
    \/ ComponentWillUnmount
    \/ \E q \in Queries, b \in BOOLEAN : ComponentWillReceiveProps(q, b)
    \/ HandleCommit
    \/ \E key \in {"Enter", "Escape"} : KeyDown(key)
    \/ \E item \in {Nil} \cup RawClauses : HandleListChange(item)
    \/ \E fieldRef \in Fields, b \in BOOLEAN : HandleFieldChange(fieldRef, b)
    \/ \E newFilter \in RawClauses : HandleFilterChange(newFilter)
    \/ \E b \in BOOLEAN : HandleClearField(b)

InitView == InitStore /\ isProd = TRUE /\ slots = {1} /\ InitPopover

SpecPopover == InitView /\ [][NextPopover]_vars

\* ------------------------------------------------------------ the claims

EventsOf(k) == {i \in DOMAIN events : events[i].op = k}
RevisionsOf(k) == {i \in DOMAIN revisions : revisions[i].op = k}
Running(k) == \E r \in Requests : pc[r].op # "idle" /\ pc[r].opid = k
Topic(kind) ==
    CASE kind = "create" -> "segment-create"
      [] kind = "update" -> "segment-update"
      [] kind = "delete" -> "segment-delete"

\* C1: a Segment whose delete-segment call has returned is still in the table
\* (only a physical cascade-delete removes it), retrieve-segment returns it
\* with is_active false, exists-segment? is false, retrieve-segments of its
\* table lists it under :all and not under :active.
C1_SoftDeleted ==
    \A i \in deleted :
        /\ i \in DOMAIN db \/ i \in purged
        /\ i \in DOMAIN db =>
            /\ RetrieveSegment(db, Num(i)).is_active = Bool(FALSE)
            /\ ~ExistsSegment(db, Num(i))
            /\ RetrieveSegments(db, db[i].table_id, "active") # {}
            /\ \A s \in RetrieveSegments(db, db[i].table_id, "active") :
                    \A k \in DOMAIN s : s[k] # i
            /\ RetrieveSegments(db, db[i].table_id, "all") # {}
            /\ \A s \in RetrieveSegments(db, db[i].table_id, "all") :
                    \E k \in DOMAIN s : s[k] = i

\* a soft-deleted Segment beside an active one of the same table, in prod
C1_Witness ==
    /\ isProd
    /\ \E i \in deleted, j \in DOMAIN db :
        /\ i \in DOMAIN db
        /\ j # i
        /\ db[j].table_id = db[i].table_id
        /\ db[j].is_active = Bool(TRUE)

C3_PermissionDenied ==
    [][/\ \A r \in Requests, a \in UpdateArgs :
            (/\ UpdateSegment(r, a)
             /\ a.id.v \in DOMAIN db
             /\ IsInteger(a.user_id) /\ ~CanWrite(a.user_id))
            => (outcome'[r] = "PermissionDenied" /\ db' = db)
       /\ \A r \in Requests, a \in DeleteArgs :
            (/\ DeleteSegment(r, a)
             /\ a.id.v \in DOMAIN db
             /\ IsInteger(a.user_id) /\ ~CanWrite(a.user_id))
            => (outcome'[r] = "PermissionDenied" /\ db' = db)
       /\ \A r \in Requests :
            (UpdatePublish(r) \/ DeletePublish(r)) => CanWrite(pc[r].user_id)
      ]_vars

IllTypedCreate(a) ==
    \/ ~IsInteger(a.table_id)
    \/ ~IsString(a.name)
    \/ ~IsInteger(a.creator_id)
    \/ ~IsMap(a.definition)

IllTypedUpdate(a) ==
    \/ ~IsInteger(a.id)
    \/ ~IsString(a.name)
    \/ ~IsMap(a.definition)
    \/ ~IsInteger(a.user_id)
    \/ ~IsString(a.revision_message)

Aborted(r) ==
    /\ outcome'[r] = "AssertionError"
    /\ pc'[r].op = "idle"
    /\ UNCHANGED <<db, nextId, revisions, events>>

\* C4: a create or update with an argument of the wrong type aborts: the call
\* ends at once, and the table, the id counter, the revisions and the events
\* are as they were.
C4_FailureIsAtomic ==
    [][/\ \A r \in Requests, a \in CreateArgs :
            (CreateSegment(r, a) /\ IllTypedCreate(a)) => Aborted(r)
       /\ \A r \in Requests, a \in UpdateArgs :
            (UpdateSegment(r, a) /\ IllTypedUpdate(a)) => Aborted(r)
      ]_vars

\* a call was rejected while the table holds a Segment with a snapshot
C4_Witness ==
    /\ \E r \in Requests : outcome[r] = "AssertionError"
    /\ DOMAIN db # {}
    /\ revisions # << >>

\* C5: in prod a physical delete throws and leaves the table and the
\* revisions as they were (so it is no soft delete either), whether or not
\* the Segment was soft-deleted before; outside prod it removes the row and
\* the Segment's revisions, and no other row or revision.
C5_PhysicalDelete ==
    [][\A r \in Requests, id \in IdArgs :
        (IsInteger(id) /\ CascadeDelete(r, id)) =>
            IF isProd
            THEN /\ outcome'[r] = "Exception"
                 /\ db' = db
                 /\ revisions' = revisions
            ELSE /\ DOMAIN db' = DOMAIN db \ {id.v}
                 /\ \A i \in DOMAIN db' : db'[i] = db[i]
                 /\ \A i \in DOMAIN revisions' : revisions'[i].model_id # id
                 /\ Len(revisions') =
                        Cardinality({i \in DOMAIN revisions :
                                        revisions[i].model_id # id})
      ]_vars

\* in prod, a physical delete of a soft-deleted Segment has thrown
C5_Witness ==
    /\ isProd
    /\ outcome[1] = "Exception"
    /\ \E i \in DOMAIN db : db[i].is_active = Bool(FALSE)
    /\ revisions # << >>

NonEmptyString(x) == IsString(x) /\ x.v # 0

\* C6 as stated: create is rejected unless tableId and creatorId are integers,
\* name a non-empty string and definition a mapping; update is rejected
\* unless also revisionMessage is a non-empty string.
C6_NonEmptyRequired ==
    [][/\ \A r \in Requests, a \in CreateArgs :
            (CreateSegment(r, a) /\
             ~(IsInteger(a.table_id) /\ IsInteger(a.creator_id) /\
               NonEmptyString(a.name) /\ IsMap(a.definition)))
            => outcome'[r] = "AssertionError"
       /\ \A r \in Requests, a \in UpdateArgs :
            (UpdateSegment(r, a) /\
             ~(NonEmptyString(a.name) /\ IsMap(a.definition) /\
               NonEmptyString(a.revision_message)))
            => outcome'[r] = "AssertionError"
      ]_vars

\* C6 amended: create is rejected exactly when tableId or creatorId is not an
\* integer, name is not a string or definition is not a mapping; update
\* exactly when id or the acting user id is not an integer, name or
\* revisionMessage is not a string or definition is not a mapping. An empty
\* name or revisionMessage is accepted.
C6_TypesRequired ==
    [][/\ \A r \in Requests, a \in CreateArgs :
            CreateSegment(r, a) =>
                (outcome'[r] = "AssertionError" <=> IllTypedCreate(a))
       /\ \A r \in Requests, a \in UpdateArgs :
            UpdateSegment(r, a) =>
                (outcome'[r] = "AssertionError" <=> IllTypedUpdate(a))
      ]_vars

\* a Segment was created with the name "" and an update with the revision
\* message "" has published its event
C6_Witness ==
    /\ \E i \in DOMAIN events :
        /\ events[i].topic = "segment-create"
        /\ events[i].object.name = Str(0)
    /\ \E i \in DOMAIN events :
        /\ events[i].topic = "segment-update"
        /\ events[i].object.revision_message = Str(0)

SameBut(old, new, columns) ==
    /\ DOMAIN new = DOMAIN old
    /\ \A k \in DOMAIN old \ columns : new[k] = old[k]

C10_CommitOnlyValid ==
    /\ \A i \in DOMAIN calls :
        calls[i].fn = "onChangeFilter" =>
            /\ i = 1
            /\ calls[i].arg # Nil
            /\ IsFilter(calls[i].arg)
            /\ calls[i].arg.valid
            /\ Len(calls) = IF hasOnClose THEN 2 ELSE 1
    /\ \A i \in DOMAIN calls :
        calls[i].fn = "onClose" =>
            hasOnClose /\ i = 2 /\ calls[1].fn = "onChangeFilter"
    /\ (attempt.via # "none" /\ (attempt.filter = Nil \/ ~attempt.filter.valid))
            => calls = << >>
    /\ (attempt.via # "none" /\ attempt.filter # Nil /\ attempt.filter.valid)
            => calls # << >>
    /\ attempt.via = "Enter" => attempt.mounted = "mounted"
    /\ mounted # "mounted" => (listeners = {} /\ calls = << >>)

\* an Enter key has committed a valid filter and closed the popover
C10_Witness ==
    /\ attempt.via = "Enter"
    /\ hasOnClose
    /\ Len(calls) = 2
    /\ calls[1].arg = filter

====
